---- MODULE Spec2Model ----
(***************************************************************************)
(* A model of the GEPA prompt optimizer and of the parameter / module      *)
(* registry it works on (src/src/lib/dspy-gepa).                           *)
(*                                                                         *)
(* Prompt texts are sequences of tokens; a dotted name "a.b.c" is the      *)
(* sequence <<"a","b","c">> of its components.  Fitness values are floats  *)
(* in the source and integers here, NegInf standing for float('-inf').     *)
(* Modules are objects on a heap: a reference is a heap id, copy.deepcopy  *)
(* allocates a fresh id, and an id no variable refers to is collected.     *)
(* Timestamps, metrics and metadata are read by no modelled operation and  *)
(* are left out.                                                           *)
(***************************************************************************)
EXTENDS Integers, Sequences, FiniteSets, TLC

\* ------------------------------------------------------------------ bounds
MaxPopulation == 2
MaxGenerations == 3
MaxElitism == 3
MaxExamples == 1
MaxPromptLength == 2
MaxHistory == 1
MaxWork == 6
MaxOps == 3
MaxEvalPopulation == 3
MaxEvalExamples == 2
MaxRecursionDepth == 3
MaxCalls == 2
MaxCallWork == 2

\* ------------------------------------------------------- program constants
NegInf == -1
InitialStrength == 50
CrossoverCoin == 50
ReflectionChance == 30
MaxAttempts == 10

\* the optimizer and its caller
VARIABLES heap, original, config, task_examples, eval_mode, eval_memo, pc,
          population, fitness_scores, next_generation, generation, loop_index,
          best_fitness, best_individual, optimization_history, result,
          exception, eval_calls, reflect_calls, eval_log

\* a module tree worked on through the registry operations
VARIABLES tree, last_op, ops_done

\* the number of optimize_module calls made on the optimizer so far
VARIABLES call_count

inputVars == <<original, config, task_examples, eval_mode, call_count>>
optVars == <<heap, eval_memo, pc, population, fitness_scores, next_generation,
             generation, loop_index, best_fitness, best_individual,
             optimization_history, result, exception, eval_calls, reflect_calls,
             eval_log>>
treeVars == <<tree, last_op, ops_done>>
vars == <<inputVars, optVars, treeVars>>

\* ----------------------------------------------------------------- helpers
Range(s) == {s[i] : i \in DOMAIN s}
MinOf(a, b) == IF a < b THEN a ELSE b
MaxOf(a, b) == IF a > b THEN a ELSE b
Abs(x) == IF x < 0 THEN -x ELSE x
SubSeqTo(s, k) == SubSeq(s, 1, MinOf(k, Len(s)))

\* Python s[:k], negative k counting from the end
SliceTo(s, k) == IF k >= 0 THEN SubSeqTo(s, k) ELSE SubSeqTo(s, MaxOf(Len(s) + k, 0))

\* random.random() draws, in percent of [0, 1)
RandomDraws == {0, 40, 90}

\* ------------------------------------------------------------ parameter.py
Active == "active"
Inactive == "inactive"
Frozen == "frozen"
Archived == "archived"
ParameterState == {Active, Inactive, Frozen, Archived}

NewParameter(name, value, path) ==
    [name |-> name, value |-> value, path |-> path, state |-> Active,
     optimization_history |-> <<>>]

\* mutant: the record holds the new text as old and the old text as new
RecordOptimizationSwapped(p, old_prompt, new_prompt, method) ==
    [p EXCEPT !.optimization_history =
        Append(@, [parameter_name |-> p.name, old_prompt |-> new_prompt,
                   new_prompt |-> old_prompt, method |-> method])]

RecordOptimization(p, old_prompt, new_prompt, method) ==
    [p EXCEPT !.optimization_history =
        Append(@, [parameter_name |-> p.name, old_prompt |-> old_prompt,
                   new_prompt |-> new_prompt, method |-> method])]

ParamFreeze(p) == [p EXCEPT !.state = Frozen]

ParamUnfreeze(p) == [p EXCEPT !.state = Active]

\* mutant: every state but Frozen counts as optimizable
IsOptimizableUnlessFrozen(p) == p.state # Frozen

IsOptimizable(p) == p.state = Active

\* the caller assigns the public field state
SetState(p, state) == [p EXCEPT !.state = state]

\* ---------------------------------------------------------- base_module.py
\* A module: cls, params (name -> parameter), children (attribute name ->
\* module), learning_enabled, is_frozen.
NewModule(cls) ==
    [cls |-> cls, params |-> <<>>, children |-> <<>>,
     learning_enabled |-> TRUE, is_frozen |-> FALSE]

HasPrompt(m, name) == name \in DOMAIN m.params

\* mutant: an existing name gets a new parameter
RegisterPromptRecreating(m, name, prompt) ==
    [m EXCEPT !.params = (name :> NewParameter(name, prompt, <<m.cls, name>>)) @@ @]

RegisterPrompt(m, name, prompt) ==
    IF name \in DOMAIN m.params
    THEN [m EXCEPT !.params[name].value = prompt]
    ELSE [m EXCEPT !.params = (name :> NewParameter(name, prompt, <<m.cls, name>>)) @@ @]

UpdatePromptResult(m, name) == name \in DOMAIN m.params

\* mutant: an unknown name is registered
UpdatePromptCreating(m, name, new_prompt, record_optimization) ==
    IF name \notin DOMAIN m.params
    THEN [m EXCEPT !.params = (name :> NewParameter(name, new_prompt, <<m.cls, name>>)) @@ @]
    ELSE LET old_prompt == m.params[name].value
             written == [m.params[name] EXCEPT !.value = new_prompt]
         IN [m EXCEPT !.params[name] =
                IF record_optimization
                THEN RecordOptimization(written, old_prompt, new_prompt, "manual_update")
                ELSE written]

UpdatePrompt(m, name, new_prompt, record_optimization) ==
    IF name \notin DOMAIN m.params
    THEN m
    ELSE LET old_prompt == m.params[name].value
             written == [m.params[name] EXCEPT !.value = new_prompt]
         IN [m EXCEPT !.params[name] =
                IF record_optimization
                THEN RecordOptimization(written, old_prompt, new_prompt, "manual_update")
                ELSE written]

FreezePrompt(m, name) ==
    IF name \in DOMAIN m.params
    THEN [m EXCEPT !.params[name] = ParamFreeze(@)]
    ELSE m

UnfreezePrompt(m, name) ==
    IF name \in DOMAIN m.params
    THEN [m EXCEPT !.params[name] = ParamUnfreeze(@)]
    ELSE m

\* mutant: the descendants' parameters are frozen too
RECURSIVE FreezeAll(_)
FreezeAll(m) ==
    [m EXCEPT !.is_frozen = TRUE,
              !.params = [n \in DOMAIN m.params |-> ParamFreeze(m.params[n])],
              !.children = [c \in DOMAIN m.children |-> FreezeAll(m.children[c])]]

ModuleFreezeCascading(m) == FreezeAll(m)

ModuleFreeze(m) ==
    [m EXCEPT !.is_frozen = TRUE,
              !.params = [n \in DOMAIN m.params |-> ParamFreeze(m.params[n])]]

ModuleUnfreeze(m) ==
    [m EXCEPT !.is_frozen = FALSE,
              !.params = [n \in DOMAIN m.params |->
                            IF m.params[n].state # Archived
                            THEN ParamUnfreeze(m.params[n])
                            ELSE m.params[n]]]

IsLearningEnabled(m) == m.learning_enabled

\* named_modules(): the pairs <<prefix, module>> of the module and all its
\* descendants, the prefix being the dotted attribute path
RECURSIVE NamedModules(_, _)
NamedModules(m, prefix) ==
    {<<prefix, m>>} \cup
    UNION {NamedModules(m.children[c], Append(prefix, c)) : c \in DOMAIN m.children}

\* mutant: is_optimizable() is not consulted
DirectNamesUnfiltered(m) == DOMAIN m.params

\* names yielded by named_parameters(recurse=False)
DirectActiveNames(m) == {n \in DOMAIN m.params : IsOptimizable(m.params[n])}

\* named_parameters(recurse): dotted name -> parameter
NamedParameters(m, recurse) ==
    LET direct == {<<(<<n>>), m.params[n]>> : n \in DirectActiveNames(m)}
        below == IF recurse
                 THEN UNION {{<<Append(nm[1], n), nm[2].params[n]>> :
                                 n \in DirectActiveNames(nm[2])} :
                             nm \in {x \in NamedModules(m, <<>>) : x[1] # <<>>}}
                 ELSE {}
    IN direct \cup below

\* the elements of a set in some order (the order of a dict's items is the
\* order of insertion, which the model does not keep)
RECURSIVE SeqOf(_)
SeqOf(set) ==
    IF set = {} THEN <<>>
    ELSE LET x == CHOOSE y \in set : TRUE IN <<x>> \o SeqOf(set \ {x})

\* modules(): the module itself first, then its descendants
RECURSIVE Modules(_)
Modules(m) ==
    LET RECURSIVE Below(_)
        Below(cs) == IF cs = <<>> THEN <<>>
                     ELSE Modules(m.children[Head(cs)]) \o Below(Tail(cs))
    IN <<m>> \o Below(SeqOf(DOMAIN m.children))

\* parameters(recurse) as the sequence of parameters it yields, and whether
\* the iteration ends in a RecursionError: the call is nested depth deep, and
\* the interpreter allows MaxRecursionDepth nested calls
RECURSIVE Parameters(_, _, _)
Parameters(m, recurse, depth) ==
    LET own == SeqOf({m.params[n] : n \in DirectActiveNames(m)})
        RECURSIVE Rest(_, _)
        Rest(mods, yielded) ==
            IF mods = <<>> THEN [yielded |-> yielded, raised |-> FALSE]
            ELSE LET sub == Parameters(Head(mods), TRUE, depth + 1)
                 IN IF sub.raised
                    THEN [yielded |-> yielded \o sub.yielded, raised |-> TRUE]
                    ELSE Rest(Tail(mods), yielded \o sub.yielded)
    IN IF depth > MaxRecursionDepth THEN [yielded |-> <<>>, raised |-> TRUE]
       ELSE IF ~recurse THEN [yielded |-> own, raised |-> FALSE]
       ELSE Rest(Modules(m), own)

\* get_prompt_dict(recurse): dotted name -> prompt text
GetPromptDict(m, recurse) ==
    LET pairs == NamedParameters(m, recurse)
        keys == {x[1] : x \in pairs}
    IN [k \in keys |-> (CHOOSE x \in pairs : x[1] = k)[2].value]

\* the "direct prompts" loop of load_prompt_dict: keys without a dot
RECURSIVE LoadDirect(_, _, _)
LoadDirect(m, prompt_dict, keys) ==
    IF keys = {} THEN m
    ELSE LET k == CHOOSE x \in keys : TRUE
             m2 == IF Len(k) # 1 THEN m
                   ELSE IF HasPrompt(m, k[1])
                        THEN UpdatePrompt(m, k[1], prompt_dict[k], FALSE)
                        ELSE RegisterPrompt(m, k[1], prompt_dict[k])
         IN LoadDirect(m2, prompt_dict, keys \ {k})

\* load_prompt_dict(prompt_dict, recurse)
LoadPromptDict(m, prompt_dict, recurse) ==
    LET direct == LoadDirect(m, prompt_dict, DOMAIN prompt_dict)
        dotted == {k \in DOMAIN prompt_dict : Len(k) > 1}
        module_names == {Head(k) : k \in dotted}
        submodule_prompts(mn) ==
            [t \in {Tail(k) : k \in {d \in dotted : Head(d) = mn}} |->
                prompt_dict[<<mn>> \o t]]
    IN IF ~recurse THEN direct
       ELSE [direct EXCEPT !.children =
               [c \in DOMAIN direct.children |->
                   IF c \in module_names
                   THEN LoadDirect(direct.children[c], submodule_prompts(c),
                                   DOMAIN submodule_prompts(c))
                   ELSE direct.children[c]]]

\* ------------------------------------------------------------------- heap
NewId(h) == CHOOSE i \in 0..Cardinality(DOMAIN h) : i \notin DOMAIN h

\* mutant: the reference is shared instead of the tree being copied
DeepCopyShared(h, ref) == [h |-> h, ref |-> ref]

\* copy.deepcopy(module): a fresh object holding the same module tree
DeepCopy(h, ref) == [h |-> (NewId(h) :> h[ref]) @@ h, ref |-> NewId(h)]

RootRef == 0
NoRef == -1

\* the collector: objects no reference reaches are dropped
Collect(h, refs) == [i \in (DOMAIN h) \cap refs |-> h[i]]

\* ------------------------------------------------------- gepa_optimizer.py
\* evaluation_fn and the reflection model are the caller's: a call returns a
\* score / a text, or raises
Scores == {0, 6, 12}
ReflectionOutputs == {<<"R">>}
EvalFns == {"scores", "always_raises"}

EvalResults(mode) ==
    {[ok |-> FALSE, score |-> 0]} \cup
    (IF mode = "always_raises" THEN {} ELSE {[ok |-> TRUE, score |-> s] : s \in Scores})

\* the reflection model's call returns a text, raises, or never returns
ReflectionResults ==
    {[ok |-> FALSE, returns |-> TRUE, text |-> <<>>],
     [ok |-> FALSE, returns |-> FALSE, text |-> <<>>]} \cup
    {[ok |-> TRUE, returns |-> TRUE, text |-> t] : t \in ReflectionOutputs}

\* str.lower() on a token
Lower(tok) == CASE tok = "A" -> "a" [] tok = "B" -> "b" [] tok = "S" -> "s"
                [] tok = "R" -> "r" [] OTHER -> tok

LowerText(prompt) == [i \in DOMAIN prompt |-> Lower(prompt[i])]

\* the template library of _mutate_prompt: eleven templates put a sentence
\* before the prompt ("S"), one puts "As an expert in this field, " before
\* the lower-cased prompt ("e")
Mutations(prompt) == {<<"S">> \o prompt, <<"e">> \o LowerText(prompt)}

Truncate(mutation) ==
    IF Len(mutation) > config.max_prompt_length
    THEN SubSeq(mutation, 1, config.max_prompt_length)
    ELSE mutation

MutatePrompt(prompt) == {Truncate(mutation) : mutation \in Mutations(prompt)}

\* one iteration of the loop of _mutate_module
MutateOne(m, name, mutation_strength) ==
    UNION {IF draw < mutation_strength
           THEN {UpdatePrompt(m, name, mutated_prompt, TRUE) :
                    mutated_prompt \in MutatePrompt(m.params[name].value)}
           ELSE {m} : draw \in RandomDraws}

RECURSIVE MutateFold(_, _, _)
MutateFold(m, names, mutation_strength) ==
    IF names = {} THEN {m}
    ELSE LET n == CHOOSE x \in names : TRUE
         IN UNION {MutateFold(m2, names \ {n}, mutation_strength) :
                      m2 \in MutateOne(m, n, mutation_strength)}

\* mutant: the parameters of the sub-modules are mutated as well
MutateModuleDeep(h, ref, mutation_strength) ==
    LET RECURSIVE Below(_, _)
        Below(m, cs) ==
            IF cs = {} THEN {m}
            ELSE LET c == CHOOSE x \in cs : TRUE
                 IN UNION {Below([m EXCEPT !.children[c] = c2], cs \ {c}) :
                              c2 \in MutateFold(m.children[c],
                                                DirectActiveNames(m.children[c]),
                                                mutation_strength)}
    IN {[h EXCEPT ![ref] = m3] :
        m3 \in UNION {Below(m2, DOMAIN m2.children) :
                         m2 \in MutateFold(h[ref], DirectActiveNames(h[ref]),
                                           mutation_strength)}}

\* _mutate_module(module, mutation_strength): the heaps it can leave
MutateModule(h, ref, mutation_strength) ==
    {[h EXCEPT ![ref] = m2] :
        m2 \in MutateFold(h[ref], DirectActiveNames(h[ref]), mutation_strength)}

RECURSIVE Variants(_, _, _, _)
Variants(h, module, count, pop) ==
    IF count <= 0 THEN {[h |-> h, population |-> pop]}
    ELSE LET variant == DeepCopy(h, module)
         IN UNION {Variants(h2, module, count - 1, Append(pop, variant.ref)) :
                      h2 \in MutateModule(variant.h, variant.ref, InitialStrength)}

\* _create_initial_population(module)
CreateInitialPopulation(h, module) ==
    LET first == DeepCopy(h, module)
    IN Variants(first.h, module, config.population_size - 1, <<first.ref>>)

\* one call evaluation_fn(module, example); example 0 is "no example".  A
\* deterministic evaluation_fn answers a module it has seen as it did before
EvalCall(mode, memo, module, example) ==
    LET key == <<module, example>>
    IN IF mode # "deterministic"
       THEN {[r |-> x, memo |-> memo] : x \in EvalResults(mode)}
       ELSE IF key \in DOMAIN memo
       THEN {[r |-> memo[key], memo |-> memo]}
       ELSE {[r |-> x, memo |-> (key :> x) @@ memo] : x \in EvalResults(mode)}

\* the try block of _evaluate_population for one individual: its fitness
\* and the number of evaluation_fn calls made
RECURSIVE ExampleRuns(_, _, _, _, _, _, _)
ExampleRuns(mode, memo, module, examples, done, sum, calls) ==
    IF done = examples
    THEN {[fitness |-> sum \div examples, calls |-> calls, memo |-> memo,
           raised |-> FALSE]}
    ELSE UNION {IF c.r.ok
                THEN ExampleRuns(mode, c.memo, module, examples, done + 1,
                                 sum + c.r.score, calls + 1)
                ELSE {[fitness |-> NegInf, calls |-> calls + 1, memo |-> c.memo,
                       raised |-> TRUE]} :
                c \in EvalCall(mode, memo, module, done + 1)}

\* mutant: an exception of evaluation_fn is scored as 0
EvaluateIndividualUnpenalized(mode, memo, module, examples) ==
    {[o EXCEPT !.fitness = IF o.raised THEN 0 ELSE @] :
        o \in IF examples > 0
              THEN ExampleRuns(mode, memo, module, examples, 0, 0, 0)
              ELSE {[fitness |-> IF c.r.ok THEN c.r.score ELSE NegInf, calls |-> 1,
                     memo |-> c.memo, raised |-> ~c.r.ok] :
                       c \in EvalCall(mode, memo, module, 0)}}

EvaluateIndividual(mode, memo, module, examples) ==
    IF examples > 0
    THEN ExampleRuns(mode, memo, module, examples, 0, 0, 0)
    ELSE {[fitness |-> IF c.r.ok THEN c.r.score ELSE NegInf, calls |-> 1,
           memo |-> c.memo, raised |-> ~c.r.ok] : c \in EvalCall(mode, memo, module, 0)}

\* _evaluate_population: one entry per individual.  log keeps, for each
\* individual in turn, whether evaluation_fn raised and how often it was called
RECURSIVE EvaluatePopulation(_, _, _, _, _, _, _, _)
EvaluatePopulation(mode, memo, h, pop, examples, scores, calls, log) ==
    IF Len(scores) = Len(pop)
    THEN {[fitness_scores |-> scores, calls |-> calls, memo |-> memo, log |-> log]}
    ELSE UNION {EvaluatePopulation(mode, o.memo, h, pop, examples,
                                   Append(scores, o.fitness), calls + o.calls,
                                   Append(log, [raised |-> o.raised,
                                                calls |-> o.calls])) :
                   o \in EvaluateIndividual(mode, memo, h[pop[Len(scores) + 1]], examples)}

\* max(fitness_scores) and fitness_scores.index(...)
MaxFitness(scores) == CHOOSE x \in Range(scores) : \A y \in Range(scores) : x >= y

\* mutant: the last index holding the maximum
IndexOfMaxLast(scores) ==
    CHOOSE i \in DOMAIN scores :
        /\ scores[i] = MaxFitness(scores)
        /\ \A j \in DOMAIN scores : scores[j] = MaxFitness(scores) => i >= j

IndexOfMax(scores) ==
    CHOOSE i \in DOMAIN scores :
        /\ scores[i] = MaxFitness(scores)
        /\ \A j \in DOMAIN scores : scores[j] = MaxFitness(scores) => i <= j

RECURSIVE SumSeq(_)
SumSeq(s) == IF s = <<>> THEN 0 ELSE Head(s) + SumSeq(Tail(s))

\* sum(fitness_scores) / len(fitness_scores), kept as a fraction
AvgFitness(scores) ==
    IF NegInf \in Range(scores) THEN [num |-> NegInf, den |-> 1]
    ELSE [num |-> SumSeq(scores), den |-> Len(scores)]

\* mutant: the comparison with the threshold is inverted
CheckConvergenceInverted(scores, gen, best) ==
    IF Len(scores) < 2 THEN FALSE
    ELSE IF gen = 0 THEN FALSE
    ELSE LET current_best == MaxFitness(scores)
         IN IF current_best = NegInf \/ best = NegInf
            THEN FALSE
            ELSE Abs(current_best - best) > config.convergence_threshold

\* _check_convergence(fitness_scores), self.best_fitness already updated
CheckConvergence(scores, gen, best) ==
    IF Len(scores) < 2 THEN FALSE
    ELSE IF gen = 0 THEN FALSE
    ELSE LET current_best == MaxFitness(scores)
         IN IF current_best = NegInf \/ best = NegInf
            THEN FALSE   \* abs() is inf or nan: not below any threshold
            ELSE Abs(current_best - best) < config.convergence_threshold

\* mutant: reverse=True is missing
RECURSIVE SortedIndicesAscending(_, _)
SortedIndicesAscending(scores, left) ==
    IF left = {} THEN <<>>
    ELSE LET i == CHOOSE x \in left :
                     \A y \in left : scores[x] < scores[y] \/ (scores[x] = scores[y] /\ x <= y)
         IN <<i>> \o SortedIndicesAscending(scores, left \ {i})

\* sorted(range(len(fitness_scores)), key=..., reverse=True): stable
RECURSIVE SortedIndices(_, _)
SortedIndices(scores, left) ==
    IF left = {} THEN <<>>
    ELSE LET i == CHOOSE x \in left :
                     \A y \in left : scores[x] > scores[y] \/ (scores[x] = scores[y] /\ x <= y)
         IN <<i>> \o SortedIndices(scores, left \ {i})

\* mutant: the slice is one short
EliteIndicesShort(scores) ==
    SliceTo(SortedIndices(scores, DOMAIN scores), config.elitism_count - 1)

\* elite_indices
EliteIndices(scores) == SliceTo(SortedIndices(scores, DOMAIN scores), config.elitism_count)

\* the elitism loop of _create_next_generation
RECURSIVE CopyElites(_, _, _, _)
CopyElites(h, pop, indices, next) ==
    IF indices = <<>> THEN [h |-> h, next_generation |-> next]
    ELSE LET c == DeepCopy(h, pop[Head(indices)])
         IN CopyElites(c.h, pop, Tail(indices), Append(next, c.ref))

\* tournament_selection(): the individuals it can return
TournamentSelection(pop, scores) ==
    LET k == MinOf(config.tournament_size, Len(pop))
        samples == {S \in SUBSET (DOMAIN pop) : Cardinality(S) = k}
    IN UNION {{pop[i] : i \in {j \in S : \A l \in S : scores[j] >= scores[l]}} : S \in samples}

\* the retry loop of _select_parents
RECURSIVE RetryParent(_, _, _, _, _)
RetryParent(pop, scores, parent1, parent2, attempts) ==
    IF parent1 = parent2 /\ attempts < MaxAttempts
    THEN UNION {RetryParent(pop, scores, parent1, p, attempts + 1) :
                   p \in TournamentSelection(pop, scores)}
    ELSE {<<parent1, parent2>>}

SelectParents(pop, scores) ==
    UNION {RetryParent(pop, scores, parent1, parent2, 0) :
              parent1 \in TournamentSelection(pop, scores),
              parent2 \in TournamentSelection(pop, scores)}

RECURSIVE CrossoverFold(_, _, _)
CrossoverFold(m, other, names) ==
    IF names = {} THEN {m}
    ELSE LET n == CHOOSE x \in names : TRUE
             taken == UNION {IF draw < CrossoverCoin
                             THEN {UpdatePrompt(m, n, other.params[n].value, TRUE)}
                             ELSE {m} : draw \in RandomDraws}
         IN UNION {CrossoverFold(m2, other, names \ {n}) : m2 \in taken}

\* mutant: the offspring starts as a copy of parent2
CrossoverFromSecond(h, parent1, parent2) ==
    LET offspring == DeepCopy(h, parent2)
        common == DirectActiveNames(h[parent1]) \cap DirectActiveNames(h[parent2])
    IN {[h |-> [offspring.h EXCEPT ![offspring.ref] = m2], ref |-> offspring.ref] :
           m2 \in CrossoverFold(offspring.h[offspring.ref], h[parent2], common)}

\* _crossover(parent1, parent2): the offspring it can build
Crossover(h, parent1, parent2) ==
    LET offspring == DeepCopy(h, parent1)
        common == DirectActiveNames(h[parent1]) \cap DirectActiveNames(h[parent2])
    IN {[h |-> [offspring.h EXCEPT ![offspring.ref] = m2], ref |-> offspring.ref] :
           m2 \in CrossoverFold(offspring.h[offspring.ref], h[parent2], common)}

\* the reflection loop of _reflect_and_improve: source holds the prompts
\* read, target is improved_module
RECURSIVE ReflectFold(_, _, _, _)
ReflectFold(source, target, names, calls) ==
    IF names = {}
    THEN {[raised |-> FALSE, hung |-> FALSE, module |-> target, reflects |-> calls]}
    ELSE LET n == CHOOSE x \in names : TRUE
         IN UNION {IF r.ok
                   THEN ReflectFold(source, UpdatePrompt(target, n, r.text, TRUE),
                                    names \ {n}, calls + 1)
                   ELSE {[raised |-> r.returns, hung |-> ~r.returns, module |-> target,
                          reflects |-> calls + 1]} :
                   r \in ReflectionResults}

\* _reflect_and_improve(module, ...)
ReflectAndImprove(h, module, mode, memo) ==
    UNION {IF ~c.r.ok
           THEN {[raised |-> "evaluation_fn", hung |-> FALSE, h |-> h, ref |-> module,
                  memo |-> c.memo, evals |-> 1, reflects |-> 0]}
           ELSE IF DirectActiveNames(h[module]) = {}
           THEN \* _collect_execution_traces: next() of an empty iterator
                {[raised |-> "collect_execution_traces", hung |-> FALSE, h |-> h,
                  ref |-> module, memo |-> c.memo, evals |-> 1, reflects |-> 0]}
           ELSE LET improved_module == DeepCopy(h, module)
                IN {[raised |-> IF o.raised THEN "reflection_model" ELSE "",
                     hung |-> o.hung,
                     h |-> [improved_module.h EXCEPT ![improved_module.ref] = o.module],
                     ref |-> improved_module.ref, memo |-> c.memo,
                     evals |-> 1, reflects |-> o.reflects] :
                       o \in ReflectFold(h[module], improved_module.h[improved_module.ref],
                                         DirectActiveNames(h[module]), 0)} :
           c \in EvalCall(mode, memo, h[module], 0)}

\* the parents, crossover and mutation steps of one iteration of the while
\* loop of _create_next_generation
BreedOffspring(h, pop, scores) ==
    LET crossed ==
            UNION {UNION {IF draw < config.crossover_rate
                          THEN Crossover(h, pp[1], pp[2])
                          ELSE {DeepCopy(h, pp[1]), DeepCopy(h, pp[2])} :
                          draw \in RandomDraws} :
                   pp \in SelectParents(pop, scores)}
    IN UNION {UNION {IF draw < config.mutation_rate
                     THEN {[h |-> h2, ref |-> o.ref] :
                              h2 \in MutateModule(o.h, o.ref, config.mutation_rate)}
                     ELSE {o} : draw \in RandomDraws} :
              o \in crossed}

\* one iteration of the while loop of _create_next_generation
MakeOffspring(h, pop, scores, mode, memo) ==
    UNION {UNION {IF draw < ReflectionChance
                  THEN ReflectAndImprove(o.h, o.ref, mode, memo)
                  ELSE {[raised |-> "", hung |-> FALSE, h |-> o.h, ref |-> o.ref,
                         memo |-> memo, evals |-> 0, reflects |-> 0]} :
                  draw \in RandomDraws} :
           o \in BreedOffspring(h, pop, scores)}

\* ------------------------------------------------------ the caller's inputs
Child == RegisterPrompt(NewModule("Step"), "hint", <<"A">>)

RootBase ==
    [RegisterPrompt(RegisterPrompt(NewModule("Agent"), "instructions", <<"A">>),
                    "style", <<"B">>)
        EXCEPT !.children = ("step" :> Child)]

\* "style" is frozen before the run
RootEnabled == FreezePrompt(RootBase, "style")

RootDisabled == [RootEnabled EXCEPT !.learning_enabled = FALSE]

RootModules == {RootEnabled, RootDisabled}

Configs ==
    [population_size : 0..MaxPopulation,
     generations : 0..MaxGenerations,
     mutation_rate : {30},
     crossover_rate : {70},
     tournament_size : {2},
     elitism_count : 0..MaxElitism,
     max_prompt_length : {MaxPromptLength},
     convergence_threshold : {7}]

\* the runs explored: population_size * generations is at most MaxWork
BoundedConfigs == {c \in Configs : c.population_size * c.generations <= MaxWork}

\* the runs explored: no optimization_history grows beyond MaxHistory
HistoryWithin(h) ==
    \A r \in DOMAIN h : \A n \in DOMAIN h[r].params :
        Len(h[r].params[n].optimization_history) <= MaxHistory

Inner == RegisterPrompt(NewModule("Tool"), "p", <<"A">>)

Sub == [RegisterPrompt(NewModule("Step"), "p", <<"A">>) EXCEPT !.children = ("inner" :> Inner)]

TreeBase == [RegisterPrompt(NewModule("Agent"), "p", <<"A">>) EXCEPT !.children = ("sub" :> Sub)]

\* a root owning two sub-modules of one class; "q" of the root has been
\* archived and "q" of the left sub-module deactivated by the caller
Left ==
    [RegisterPrompt(NewModule("Step"), "q", <<"A">>) EXCEPT !.params["q"] = SetState(@, Inactive)]

Right == NewModule("Step")

TreeWide ==
    [RegisterPrompt(RegisterPrompt(NewModule("Agent"), "p", <<"A">>), "q", <<"B">>)
        EXCEPT !.params["q"] = SetState(@, Archived),
               !.children = ("left" :> Left) @@ ("right" :> Right)]

Trees == {TreeBase, TreeWide}

Names == {"p", "q"}
Texts == {<<"A">>, <<"B">>}

NoOp == [op |-> "none", path |-> <<>>, name |-> "", text |-> <<>>, record |-> FALSE,
         ret |-> TRUE, dict |-> <<>>]

\* the module at a dotted attribute path, and the tree with it replaced
RECURSIVE GetAt(_, _)
GetAt(t, path) == IF path = <<>> THEN t ELSE GetAt(t.children[Head(path)], Tail(path))

RECURSIVE SetAt(_, _, _)
SetAt(t, path, sub) ==
    IF path = <<>> THEN sub
    ELSE [t EXCEPT !.children[Head(path)] = SetAt(@, Tail(path), sub)]

ModulePaths(t) == {nm[1] : nm \in NamedModules(t, <<>>)}

\* ------------------------------------------------ the optimizer: one call
\* the references held after a step
Commit(h, pop, next, best, res) ==
    /\ heap' = Collect(h, {RootRef} \cup Range(pop) \cup Range(next) \cup {best, res})
    /\ population' = pop
    /\ next_generation' = next
    /\ best_individual' = best
    /\ result' = res

InitOptimizer(modes) ==
    /\ original \in RootModules
    /\ heap = (RootRef :> original)
    /\ config \in BoundedConfigs
    /\ task_examples \in 0..MaxExamples
    /\ eval_mode \in modes
    /\ eval_memo = <<>>
    /\ pc = "idle"
    /\ population = <<>>
    /\ fitness_scores = <<>>
    /\ next_generation = <<>>
    /\ generation = 0
    /\ loop_index = 0
    /\ best_fitness = NegInf
    /\ best_individual = NoRef
    /\ optimization_history = <<>>
    /\ result = NoRef
    /\ exception = ""
    /\ eval_calls = 0
    /\ reflect_calls = 0
    /\ eval_log = <<>>
    /\ tree = TreeBase
    /\ last_op = NoOp
    /\ ops_done = 0
    /\ call_count = 1

Init == InitOptimizer({"scores", "always_raises"})

\* optimize_module called on a module with learning disabled (line 108)
OptimizeDisabled ==
    /\ pc = "idle"
    /\ ~IsLearningEnabled(heap[RootRef])
    /\ pc' = "returned"
    /\ result' = RootRef
    /\ UNCHANGED <<heap, eval_memo, population, fitness_scores, next_generation,
                   generation, loop_index, best_fitness, best_individual,
                   optimization_history, exception, eval_calls, reflect_calls,
                   eval_log>>
    /\ UNCHANGED <<inputVars, treeVars>>

\* optimize_module up to the loop (lines 111-119)
OptimizeStart ==
    /\ pc = "idle"
    /\ IsLearningEnabled(heap[RootRef])
    /\ \E o \in CreateInitialPopulation(heap, RootRef) :
          LET best == DeepCopy(o.h, o.population[1])
          IN /\ HistoryWithin(o.h)
             /\ Commit(best.h, o.population, <<>>, best.ref, NoRef)
    /\ generation' = 0
    /\ best_fitness' = NegInf
    /\ optimization_history' = <<>>
    /\ loop_index' = 0
    /\ pc' = "loop"
    /\ UNCHANGED <<eval_memo, fitness_scores, exception, eval_calls, reflect_calls,
                   eval_log>>
    /\ UNCHANGED <<inputVars, treeVars>>

\* the loop is exhausted: return best_individual (line 155)
ReturnBest ==
    /\ pc = "loop"
    /\ loop_index >= config.generations
    /\ pc' = "returned"
    /\ result' = best_individual
    /\ UNCHANGED <<heap, eval_memo, population, fitness_scores, next_generation,
                   generation, loop_index, best_fitness, best_individual,
                   optimization_history, exception, eval_calls, reflect_calls,
                   eval_log>>
    /\ UNCHANGED <<inputVars, treeVars>>

\* one loop iteration up to the convergence check (lines 123-148)
EvaluateGeneration ==
    /\ pc = "loop"
    /\ loop_index < config.generations
    /\ generation' = loop_index
    /\ \E o \in EvaluatePopulation(eval_mode, eval_memo, heap, population,
                                   task_examples, <<>>, 0, <<>>) :
          /\ fitness_scores' = o.fitness_scores
          /\ eval_log' = o.log
          /\ eval_calls' = eval_calls + o.calls
          /\ eval_memo' = o.memo
          /\ IF o.fitness_scores = <<>>
             THEN \* max() of an empty list raises
                  /\ pc' = "raised"
                  /\ exception' = "max"
                  /\ UNCHANGED <<heap, population, next_generation, best_fitness,
                                 best_individual, optimization_history, result>>
             ELSE LET current_best_idx == IndexOfMax(o.fitness_scores)
                      current_best_fitness == o.fitness_scores[current_best_idx]
                      improved == current_best_fitness > best_fitness
                      best == DeepCopy(heap, population[current_best_idx])
                      new_best_fitness == IF improved THEN current_best_fitness
                                          ELSE best_fitness
                      new_best == IF improved THEN best.ref ELSE best_individual
                      converged == CheckConvergence(o.fitness_scores, loop_index,
                                                    new_best_fitness)
                  IN /\ best_fitness' = new_best_fitness
                     /\ optimization_history' =
                           Append(optimization_history,
                                  [generation |-> loop_index,
                                   best_fitness |-> current_best_fitness,
                                   avg_fitness |-> AvgFitness(o.fitness_scores),
                                   population_size |-> Len(population)])
                     /\ pc' = IF converged THEN "returned" ELSE "elitism"
                     /\ exception' = exception
                     /\ Commit(IF improved THEN best.h ELSE heap, population, <<>>,
                               new_best, IF converged THEN new_best ELSE NoRef)
    /\ UNCHANGED <<loop_index, reflect_calls>>
    /\ UNCHANGED <<inputVars, treeVars>>

\* the elitism part of _create_next_generation (lines 239-247)
Elitism ==
    /\ pc = "elitism"
    /\ LET o == CopyElites(heap, population, EliteIndices(fitness_scores), <<>>)
       IN Commit(o.h, population, o.next_generation, best_individual, NoRef)
    /\ pc' = "offspring"
    /\ UNCHANGED <<eval_memo, fitness_scores, generation, loop_index, best_fitness,
                   optimization_history, exception, eval_calls, reflect_calls,
                   eval_log>>
    /\ UNCHANGED <<inputVars, treeVars>>

\* one iteration of the while loop (lines 250-270); an exception of
\* evaluation_fn or of the reflection model leaves optimize_module, and a
\* reflection call that never returns leaves it waiting in that call
Offspring ==
    /\ pc = "offspring"
    /\ Len(next_generation) < config.population_size
    /\ \E o \in MakeOffspring(heap, population, fitness_scores, eval_mode, eval_memo) :
          /\ eval_calls' = eval_calls + o.evals
          /\ reflect_calls' = reflect_calls + o.reflects
          /\ eval_memo' = o.memo
          /\ exception' = o.raised
          /\ IF o.raised # "" \/ o.hung
             THEN /\ pc' = IF o.hung THEN "hung" ELSE "raised"
                  /\ UNCHANGED <<heap, population, next_generation, best_individual,
                                 result>>
             ELSE /\ pc' = "offspring"
                  /\ HistoryWithin(o.h)
                  /\ Commit(o.h, population, Append(next_generation, o.ref),
                            best_individual, NoRef)
    /\ UNCHANGED <<fitness_scores, generation, loop_index, best_fitness,
                   optimization_history, eval_log>>
    /\ UNCHANGED <<inputVars, treeVars>>

\* the next generation is complete: it becomes the population (lines 151, 272)
NextGeneration ==
    /\ pc = "offspring"
    /\ Len(next_generation) >= config.population_size
    /\ Commit(heap, next_generation, <<>>, best_individual, NoRef)
    /\ loop_index' = loop_index + 1
    /\ pc' = "loop"
    /\ UNCHANGED <<eval_memo, fitness_scores, generation, best_fitness,
                   optimization_history, exception, eval_calls, reflect_calls,
                   eval_log>>
    /\ UNCHANGED <<inputVars, treeVars>>

Next ==
    \/ OptimizeDisabled
    \/ OptimizeStart
    \/ ReturnBest
    \/ EvaluateGeneration
    \/ Elitism
    \/ Offspring
    \/ NextGeneration

Spec == Init /\ [][Next]_vars

\* the same call with a deterministic evaluation_fn
InitDeterministic == InitOptimizer({"deterministic"})

SpecDeterministic == InitDeterministic /\ [][Next]_vars

\* get_optimization_stats()
GetOptimizationStats ==
    [generations_completed |-> generation, best_fitness |-> best_fitness,
     config |-> config, history |-> optimization_history]

\* ------------------------------ one optimizer, optimize_module called again
\* the runs explored: population_size * generations is at most MaxCallWork
InitCalls ==
    /\ InitOptimizer({"scores"})
    /\ config.population_size * config.generations <= MaxCallWork

\* the call has ended; optimize_module is called again, with a module of the
\* caller's choice.  generation, best_fitness and optimization_history are
\* attributes of the optimizer, everything else is local to a call
NextCall ==
    /\ pc \in {"returned", "raised"}
    /\ call_count < MaxCalls
    /\ call_count' = call_count + 1
    /\ original' \in RootModules
    /\ heap' = (RootRef :> original')
    /\ pc' = "idle"
    /\ population' = <<>>
    /\ fitness_scores' = <<>>
    /\ next_generation' = <<>>
    /\ loop_index' = 0
    /\ best_individual' = NoRef
    /\ result' = NoRef
    /\ exception' = ""
    /\ eval_calls' = 0
    /\ reflect_calls' = 0
    /\ eval_log' = <<>>
    /\ UNCHANGED <<generation, best_fitness, optimization_history, eval_memo>>
    /\ UNCHANGED <<config, task_examples, eval_mode, treeVars>>

NextCalls ==
    \/ Next
    \/ NextCall

SpecCalls == InitCalls /\ [][NextCalls]_vars

\* one call, the coroutine running on whenever it can
SpecLive == InitCalls /\ [][Next]_vars /\ WF_vars(Next)

\* ------------------------------------------- _crossover called on its own
\* the parents: modules of the root's shape that differ in the texts of
\* "instructions", "style" and the sub-module's "hint" and in whether
\* "instructions" is frozen
ParentModules ==
    {[RootEnabled EXCEPT !.params["instructions"].value = instructions,
                         !.params["instructions"].state = state,
                         !.params["style"].value = style,
                         !.children["step"].params["hint"].value = hint] :
        instructions \in Texts, state \in {Active, Frozen}, style \in Texts,
        hint \in Texts}

InitCrossover ==
    /\ original = RootEnabled
    /\ \E parent1, parent2 \in ParentModules :
          heap = (RootRef :> original) @@ (1 :> parent1) @@ (2 :> parent2)
    /\ population = <<1, 2>>
    /\ config = CHOOSE c \in BoundedConfigs : c.population_size = 0 /\ c.generations = 0
                                              /\ c.elitism_count = 0
    /\ task_examples = 0
    /\ eval_mode = "scores"
    /\ eval_memo = <<>>
    /\ pc = "cross"
    /\ fitness_scores = <<>>
    /\ next_generation = <<>>
    /\ generation = 0
    /\ loop_index = 0
    /\ best_fitness = NegInf
    /\ best_individual = NoRef
    /\ optimization_history = <<>>
    /\ result = NoRef
    /\ exception = ""
    /\ eval_calls = 0
    /\ reflect_calls = 0
    /\ eval_log = <<>>
    /\ tree = TreeBase
    /\ last_op = NoOp
    /\ ops_done = 0
    /\ call_count = 1

CallCrossover ==
    /\ pc = "cross"
    /\ \E o \in Crossover(heap, population[1], population[2]) :
          /\ heap' = o.h
          /\ result' = o.ref
    /\ pc' = "crossed"
    /\ UNCHANGED <<eval_memo, population, fitness_scores, next_generation, generation,
                   loop_index, best_fitness, best_individual, optimization_history,
                   exception, eval_calls, reflect_calls, eval_log>>
    /\ UNCHANGED <<inputVars, treeVars>>

NextCrossover == CallCrossover

SpecCrossover == InitCrossover /\ [][NextCrossover]_vars

\* --------------------------------- _evaluate_population called on its own
\* a population of up to MaxEvalPopulation clones of the root, evaluated on
\* up to MaxEvalExamples examples
InitEvaluate ==
    /\ original = RootEnabled
    /\ \E n \in 0..MaxEvalPopulation :
          /\ heap = [i \in 0..n |-> original]
          /\ population = [i \in 1..n |-> i]
    /\ config = CHOOSE c \in BoundedConfigs : c.population_size = 0 /\ c.generations = 0
                                              /\ c.elitism_count = 0
    /\ task_examples \in 0..MaxEvalExamples
    /\ eval_mode \in EvalFns
    /\ eval_memo = <<>>
    /\ pc = "evaluate"
    /\ fitness_scores = <<>>
    /\ next_generation = <<>>
    /\ generation = 0
    /\ loop_index = 0
    /\ best_fitness = NegInf
    /\ best_individual = NoRef
    /\ optimization_history = <<>>
    /\ result = NoRef
    /\ exception = ""
    /\ eval_calls = 0
    /\ reflect_calls = 0
    /\ eval_log = <<>>
    /\ tree = TreeBase
    /\ last_op = NoOp
    /\ ops_done = 0
    /\ call_count = 1

CallEvaluatePopulation ==
    /\ pc = "evaluate"
    /\ \E o \in EvaluatePopulation(eval_mode, eval_memo, heap, population,
                                   task_examples, <<>>, 0, <<>>) :
          /\ fitness_scores' = o.fitness_scores
          /\ eval_calls' = eval_calls + o.calls
          /\ eval_memo' = o.memo
          /\ eval_log' = o.log
    /\ pc' = "evaluated"
    /\ UNCHANGED <<heap, population, next_generation, generation, loop_index,
                   best_fitness, best_individual, optimization_history, result,
                   exception, reflect_calls>>
    /\ UNCHANGED <<inputVars, treeVars>>

NextEvaluate == CallEvaluatePopulation

SpecEvaluate == InitEvaluate /\ [][NextEvaluate]_vars

\* ------------------------------------------- the registry: caller's calls
InitTree ==
    /\ original = RootEnabled
    /\ heap = (RootRef :> original)
    /\ config = CHOOSE c \in BoundedConfigs : c.population_size = 0 /\ c.generations = 0
                                              /\ c.elitism_count = 0
    /\ task_examples = 0
    /\ eval_mode = "scores"
    /\ eval_memo = <<>>
    /\ pc = "idle"
    /\ population = <<>>
    /\ fitness_scores = <<>>
    /\ next_generation = <<>>
    /\ generation = 0
    /\ loop_index = 0
    /\ best_fitness = NegInf
    /\ best_individual = NoRef
    /\ optimization_history = <<>>
    /\ result = NoRef
    /\ exception = ""
    /\ eval_calls = 0
    /\ reflect_calls = 0
    /\ eval_log = <<>>
    /\ tree \in Trees
    /\ last_op = NoOp
    /\ ops_done = 0
    /\ call_count = 1

Called(op) ==
    /\ ops_done < MaxOps
    /\ ops_done' = ops_done + 1
    /\ last_op' = op
    /\ UNCHANGED <<inputVars, optVars>>

CallRegisterPrompt ==
    \E path \in ModulePaths(tree), name \in Names, text \in Texts :
        /\ tree' = SetAt(tree, path, RegisterPrompt(GetAt(tree, path), name, text))
        /\ Called([NoOp EXCEPT !.op = "register_prompt", !.path = path, !.name = name,
                               !.text = text])

CallUpdatePrompt ==
    \E path \in ModulePaths(tree), name \in Names, text \in Texts, record \in BOOLEAN :
        /\ tree' = SetAt(tree, path, UpdatePrompt(GetAt(tree, path), name, text, record))
        /\ Called([NoOp EXCEPT !.op = "update_prompt", !.path = path, !.name = name,
                               !.text = text, !.record = record,
                               !.ret = UpdatePromptResult(GetAt(tree, path), name)])

CallFreezePrompt ==
    \E path \in ModulePaths(tree), name \in Names :
        /\ tree' = SetAt(tree, path, FreezePrompt(GetAt(tree, path), name))
        /\ Called([NoOp EXCEPT !.op = "freeze_prompt", !.path = path, !.name = name,
                               !.ret = HasPrompt(GetAt(tree, path), name)])

CallUnfreezePrompt ==
    \E path \in ModulePaths(tree), name \in Names :
        /\ tree' = SetAt(tree, path, UnfreezePrompt(GetAt(tree, path), name))
        /\ Called([NoOp EXCEPT !.op = "unfreeze_prompt", !.path = path, !.name = name,
                               !.ret = HasPrompt(GetAt(tree, path), name)])

CallFreeze ==
    \E path \in ModulePaths(tree) :
        /\ tree' = SetAt(tree, path, ModuleFreeze(GetAt(tree, path)))
        /\ Called([NoOp EXCEPT !.op = "freeze", !.path = path])

CallUnfreeze ==
    \E path \in ModulePaths(tree) :
        /\ tree' = SetAt(tree, path, ModuleUnfreeze(GetAt(tree, path)))
        /\ Called([NoOp EXCEPT !.op = "unfreeze", !.path = path])

\* load_prompt_dict(D) on the root, D giving a text to every name that
\* get_prompt_dict() exports
CallLoadPromptDict ==
    \E prompt_dict \in [DOMAIN GetPromptDict(tree, TRUE) -> Texts] :
        /\ tree' = LoadPromptDict(tree, prompt_dict, TRUE)
        /\ Called([NoOp EXCEPT !.op = "load_prompt_dict", !.dict = prompt_dict])

NextTree ==
    \/ CallRegisterPrompt
    \/ CallUpdatePrompt
    \/ CallFreezePrompt
    \/ CallUnfreezePrompt
    \/ CallFreeze
    \/ CallUnfreeze
    \/ CallLoadPromptDict

SpecTree == InitTree /\ [][NextTree]_vars

\* C8: load_prompt_dict(D) followed by get_prompt_dict() gives D back, for a
\* dict D over the dotted names of the tree's parameters, at any depth
C8_RoundTrip ==
    last_op.op = "load_prompt_dict" => GetPromptDict(tree, TRUE) = last_op.dict

\* --------------------------------------------------------------- the claims
Injective(f) == \A a, b \in DOMAIN f : f[a] = f[b] => a = b

FiniteFitness(x) == x # NegInf

\* the individuals of the run: every object but the caller's root
Individuals == DOMAIN heap \ {RootRef}

\* C1: optimize leaves the caller's root module tree as it was: every
\* parameter keeps its value, state and history; all writes land on clones
C1_RootUnchanged == heap[RootRef] = original

C1_Witness ==
    /\ pc = "returned"
    /\ result # RootRef
    /\ \E r \in Individuals :
          heap[r].params["instructions"].value # original.params["instructions"].value

\* C2: a parameter frozen in root before the run has root's value (and is
\* still frozen) in every individual of every generation and in the result
C2_FrozenUnchanged ==
    \A r \in Individuals : \A n \in DOMAIN original.params :
        original.params[n].state = Frozen =>
            /\ n \in DOMAIN heap[r].params
            /\ heap[r].params[n].value = original.params[n].value
            /\ heap[r].params[n].state = Frozen

C2_Witness ==
    /\ pc = "loop"
    /\ loop_index >= 1
    /\ \E n \in DOMAIN original.params : original.params[n].state = Frozen
    /\ \E i \in DOMAIN population :
          heap[population[i]].params["instructions"].optimization_history # <<>>

\* C3: the initial population and every next generation hold exactly
\* population_size individuals, whatever population_size and elitism_count
C3_PopulationSize ==
    pc \in {"loop", "elitism", "offspring", "returned"} /\ result # RootRef
        => Len(population) = config.population_size

\* C4: with 0 <= elitism_count = E <= population_size, E individuals of
\* highest fitness of a generation are in the next generation unchanged
C4_Elitism ==
    [][(pc = "offspring" /\ pc' = "loop"
        /\ config.elitism_count <= config.population_size)
       => \E I \in SUBSET (DOMAIN population) :
            /\ Cardinality(I) = config.elitism_count
            /\ \A i \in I : \A j \in (DOMAIN population) \ I :
                  fitness_scores[i] >= fitness_scores[j]
            /\ \E f \in [I -> DOMAIN population'] :
                  /\ Injective(f)
                  /\ \A i \in I : heap'[population'[f[i]]] = heap[population[i]]]_vars

C4_Witness ==
    /\ pc = "loop"
    /\ loop_index >= 1
    /\ config.elitism_count = 1
    /\ config.population_size = 2
    /\ fitness_scores[1] < fitness_scores[2]
    /\ heap[population[1]] # heap[population[2]]

\* C5 as stated: the best_fitness values of the statistics log never
\* decrease from one generation to the next
C5_RecordedBestMonotonic ==
    \A g \in 1..(Len(optimization_history) - 1) :
        optimization_history[g + 1].best_fitness >= optimization_history[g].best_fitness

\* C5 amended: they never decrease when evaluation_fn is deterministic and
\* elitism_count is at least 1
C5_MonotonicWithElite ==
    (eval_mode = "deterministic" /\ config.elitism_count >= 1)
        => C5_RecordedBestMonotonic

C5_Witness ==
    /\ eval_mode = "deterministic"
    /\ config.elitism_count >= 1
    /\ Len(optimization_history) >= 2
    /\ optimization_history[2].best_fitness > optimization_history[1].best_fitness

\* generations g-1 and g (1-based records g-1, g) have best fitness values
\* less than convergence_threshold apart
CloseGenerations(g) ==
    /\ FiniteFitness(optimization_history[g].best_fitness)
    /\ FiniteFitness(optimization_history[g - 1].best_fitness)
    /\ Abs(optimization_history[g].best_fitness - optimization_history[g - 1].best_fitness)
          < config.convergence_threshold

C7_ZeroGenerationsEvaluates ==
    (pc = "returned" /\ result # RootRef /\ config.generations = 0)
        => eval_calls >= Len(population)

\* C9: with an evaluation_fn that raises on every call optimize does not
\* raise, and returns the prompt values of the unmutated clone of root
C9_AlwaysRaisingTolerated ==
    (eval_mode = "always_raises" /\ config.population_size >= 1)
        => /\ pc # "raised"
           /\ (pc = "returned" /\ result # RootRef) =>
                 GetPromptDict(heap[result], TRUE) = GetPromptDict(original, TRUE)

\* C10: a failing Reflection Adapter call never ends the run: optimize goes
\* on and returns a module
C10_ReflectionFailureCaught == ~(pc = "raised" /\ exception = "reflection_model")

\* C11: in _evaluate_population an exception of evaluation_fn for one
\* individual, on any of its examples, gives that individual the fitness
\* minus infinity; every individual is evaluated (evaluation_fn is called for
\* it, and on every example when it does not raise), and the fitness list has
\* one entry per individual, in population order
C11_FailuresPerIndividual ==
    pc = "evaluated" =>
        /\ Len(fitness_scores) = Len(population)
        /\ Len(eval_log) = Len(population)
        /\ \A i \in DOMAIN population :
              /\ eval_log[i].calls >= 1
              /\ eval_log[i].raised => fitness_scores[i] = NegInf
              /\ ~eval_log[i].raised =>
                    /\ FiniteFitness(fitness_scores[i])
                    /\ eval_log[i].calls = MaxOf(task_examples, 1)

\* an individual fails on its second example, the next one is scored
C11_Witness ==
    /\ pc = "evaluated"
    /\ task_examples = 2
    /\ Len(population) = 3
    /\ eval_log[2].raised /\ eval_log[2].calls = 2
    /\ fitness_scores[1] = 12 /\ fitness_scores[2] = NegInf /\ fitness_scores[3] = 6

\* the parameters of a tree: <<path of the owning module, name>>
ParamsOf(t) ==
    UNION {{<<path, n>> : n \in DOMAIN GetAt(t, path).params} : path \in ModulePaths(t)}

ParamAt(t, pn) == GetAt(t, pn[1]).params[pn[2]]

\* C12: Archived is terminal: no register, update, freeze(name),
\* unfreeze(name), Module.freeze(), Module.unfreeze() or load_prompt_dict
\* takes a parameter out of the state Archived
C12_ArchivedTerminal ==
    [][\A pn \in ParamsOf(tree) :
          ParamAt(tree, pn).state = Archived =>
              (pn \in ParamsOf(tree') /\ ParamAt(tree', pn).state = Archived)]_vars

\* the step is a call of one of the operations ops
CallOf(ops) == ops_done' = ops_done + 1 /\ last_op'.op \in ops

\* C13: update, freeze(name) and unfreeze(name) with a name the module has
\* not registered return false and leave the whole tree as it was: no
\* parameter is created, no value, state or history changes
C13_UnknownNameRefused ==
    [][(/\ CallOf({"update_prompt", "freeze_prompt", "unfreeze_prompt"})
        /\ ~HasPrompt(GetAt(tree, last_op'.path), last_op'.name))
       => (last_op'.ret = FALSE /\ tree' = tree)]_vars

\* update_prompt has been called with a name its module does not own
C13_Witness ==
    /\ last_op.op = "update_prompt"
    /\ last_op.ret = FALSE
    /\ ~HasPrompt(GetAt(tree, last_op.path), last_op.name)

\* C14: update(name, new_text, record_history) on a registered name returns
\* true and sets the value to new_text; the history grows by exactly one
\* record <<previous value, new_text>> when record_history is true and stays
\* as it was otherwise; nothing else of the parameter, no other parameter and
\* no other module changes
C14_UpdateRegistered ==
    [][(/\ CallOf({"update_prompt"})
        /\ HasPrompt(GetAt(tree, last_op'.path), last_op'.name))
       => LET pn == <<last_op'.path, last_op'.name>>
              old == ParamAt(tree, pn)
              new == ParamAt(tree', pn)
          IN /\ last_op'.ret = TRUE
             /\ new.value = last_op'.text
             /\ new.optimization_history =
                   IF last_op'.record
                   THEN Append(old.optimization_history,
                               [parameter_name |-> last_op'.name,
                                old_prompt |-> old.value,
                                new_prompt |-> last_op'.text,
                                method |-> "manual_update"])
                   ELSE old.optimization_history
             /\ tree' = SetAt(tree, pn[1],
                              [GetAt(tree, pn[1]) EXCEPT !.params[pn[2]] =
                                  [old EXCEPT !.value = new.value,
                                              !.optimization_history =
                                                  new.optimization_history]])]_vars

\* a recorded update that changed the text, on a parameter with a history
C14_Witness ==
    /\ last_op.op = "update_prompt" /\ last_op.ret /\ last_op.record
    /\ LET param == ParamAt(tree, <<last_op.path, last_op.name>>)
           history == param.optimization_history
       IN /\ Len(history) = 2
          /\ history[2].old_prompt # history[2].new_prompt
          /\ param.value = history[2].new_prompt

\* C15: register(name, text) never creates a second parameter; for a name
\* that exists it sets the value to text and leaves path, state, history
\* and everything else of the tree as they were; registering the same
\* (name, text) once more changes nothing
C15_RegisterIdempotent ==
    [][CallOf({"register_prompt"})
       => LET path == last_op'.path
              name == last_op'.name
              text == last_op'.text
              before == GetAt(tree, path)
              after == GetAt(tree', path)
          IN /\ DOMAIN after.params = DOMAIN before.params \cup {name}
             /\ after.params[name].value = text
             /\ HasPrompt(before, name) =>
                   tree' = SetAt(tree, path, [before EXCEPT !.params[name].value = text])
             /\ RegisterPrompt(after, name, text) = after]_vars

\* register has overwritten the text of a frozen parameter with a history
C15_Witness ==
    /\ last_op.op = "register_prompt"
    /\ LET param == ParamAt(tree, <<last_op.path, last_op.name>>)
       IN /\ param.state = Frozen
          /\ Len(param.optimization_history) = 1
          /\ param.value = last_op.text
          /\ param.value # param.optimization_history[1].new_prompt

\* C16: Module.freeze() leaves every parameter the module owns Frozen and
\* changes nothing in its descendants: a descendant's parameter that was
\* Active is Active afterwards and named_parameters(recurse=true) of the
\* frozen module still yields it under its dotted name
C16_FreezeOwnOnly ==
    [][CallOf({"freeze"})
       => LET before == GetAt(tree, last_op'.path)
              after == GetAt(tree', last_op'.path)
          IN /\ DOMAIN after.params = DOMAIN before.params
             /\ \A n \in DOMAIN after.params : after.params[n].state = Frozen
             /\ after.children = before.children
             /\ \A pn \in ParamsOf(before) :
                   (pn[1] # <<>> /\ ParamAt(before, pn).state = Active) =>
                       \E x \in NamedParameters(after, TRUE) :
                           /\ x[1] = Append(pn[1], pn[2])
                           /\ x[2] = ParamAt(before, pn)]_vars

\* the root has been frozen; the parameters one and two levels below it
\* are Active
C16_Witness ==
    /\ last_op.op = "freeze" /\ last_op.path = <<>>
    /\ tree.params["p"].state = Frozen
    /\ "sub" \in DOMAIN tree.children
    /\ tree.children["sub"].params["p"].state = Active
    /\ tree.children["sub"].children["inner"].params["p"].state = Active

\* C17: parameters() and named_parameters(), with recurse true or false,
\* called on any module of the tree, yield only parameters whose state is
\* Active, be they the module's own or a descendant's
C17_OnlyActiveYielded ==
    \A path \in ModulePaths(tree) : \A recurse \in BOOLEAN :
        LET m == GetAt(tree, path)
        IN /\ \A x \in Range(Parameters(m, recurse, 0).yielded) : x.state = Active
           /\ \A x \in NamedParameters(m, recurse) : x[2].state = Active

\* the tree holds an Archived, an Inactive and a Frozen parameter, the
\* Frozen one in a descendant, and the root yields an Active one
C17_Witness ==
    /\ \E pn \in ParamsOf(tree) : ParamAt(tree, pn).state = Archived
    /\ \E pn \in ParamsOf(tree) : ParamAt(tree, pn).state = Inactive
    /\ \E pn \in ParamsOf(tree) : pn[1] # <<>> /\ ParamAt(tree, pn).state = Frozen
    /\ Parameters(tree, TRUE, 0).yielded # <<>>
    /\ \E x \in NamedParameters(tree, TRUE) : Len(x[1]) > 1

\* the Active parameters reachable from a module
ActiveParamsOf(m) == {pn \in ParamsOf(m) : ParamAt(m, pn).state = Active}

\* C18: on every module of the tree parameters(recurse=true) terminates and
\* yields every reachable Active parameter exactly once, and
\* named_parameters(recurse=true) yields the same parameters, each once,
\* under its dotted name
C18_ParametersOnce ==
    \A path \in ModulePaths(tree) :
        LET m == GetAt(tree, path)
            r == Parameters(m, TRUE, 0)
            named == NamedParameters(m, TRUE)
        IN /\ ~r.raised
           /\ Len(r.yielded) = Cardinality(ActiveParamsOf(m))
           /\ Range(r.yielded) = {ParamAt(m, pn) : pn \in ActiveParamsOf(m)}
           /\ {x[1] : x \in named} = {Append(pn[1], pn[2]) : pn \in ActiveParamsOf(m)}
           /\ \A x \in named : x[2] = ParamAt(m, <<SubSeq(x[1], 1, Len(x[1]) - 1),
                                                      x[1][Len(x[1])]>>)

\* C19: within one module tree no two distinct parameters have the same
\* path, also when two sub-modules of one class each register a parameter
\* of the same name
C19_PathsUnique ==
    \A pn1, pn2 \in ParamsOf(tree) :
        pn1 # pn2 => ParamAt(tree, pn1).path # ParamAt(tree, pn2).path

\* a configuration the specification calls invalid (rates in percent)
InvalidConfig(c) ==
    \/ c.elitism_count > c.population_size
    \/ c.elitism_count < 0
    \/ c.mutation_rate < 0 \/ c.mutation_rate > 100
    \/ c.crossover_rate < 0 \/ c.crossover_rate > 100

\* C20: with an invalid configuration optimize fails before the loop starts:
\* no clone of the module is made, evaluation_fn is not called, and the call
\* ends in a configuration error
C20_InvalidConfigRejected ==
    (InvalidConfig(config) /\ IsLearningEnabled(original)) =>
        /\ DOMAIN heap = {RootRef}
        /\ eval_calls = 0
        /\ pc \in {"idle", "raised"}
        /\ pc = "raised" => exception = "config"

\* C21: the optimizer carries nothing from one optimize call to the next:
\* whatever module the call is made with, learning disabled included, the
\* generation counter, the best fitness and the statistics log are those of
\* this call (at most one record per loop iteration begun; none, and the
\* initial counter and fitness, when the call returned at once)
C21_NoCarryOver ==
    pc # "idle" =>
        IF IsLearningEnabled(original)
        THEN /\ Len(optimization_history) <= loop_index + 1
             /\ generation <= loop_index
        ELSE /\ optimization_history = <<>>
             /\ generation = 0
             /\ best_fitness = NegInf

\* C22: a reflection call that never returns does not block the run: with
\* optimize waiting in such a call, the run goes on and optimize eventually
\* returns
C22_HangDoesNotBlock == (pc = "hung") ~> (pc = "returned")

\* C23: the module optimize returns is a deep clone: an object other than
\* the caller's root module and other than every member of the final
\* population, also when the root has learning disabled
C23_ReturnsClone ==
    pc = "returned" => (result # RootRef /\ result \notin Range(population))

\* the best-ever fitness before the generation of record g (1-based) was
\* evaluated
RECURSIVE PriorBest(_)
PriorBest(g) ==
    IF g <= 1 THEN NegInf
    ELSE MaxOf(PriorBest(g - 1), optimization_history[g - 1].best_fitness)

\* the loop was left by the convergence check, at generation loop_index
StoppedEarly ==
    pc = "returned" /\ result # RootRef /\ loop_index < config.generations

\* C24: the loop stops early at generation g only if g >= 1 and this
\* generation's maximum fitness is less than convergence_threshold away from
\* the best-ever fitness as it stood before generation g was evaluated: a
\* generation improving on it by the threshold or more does not stop the loop
C24_StopsOnlyWhenCloseToPrior ==
    StoppedEarly =>
        LET g == Len(optimization_history)
            current == optimization_history[g].best_fitness
        IN /\ g >= 2
           /\ FiniteFitness(current) /\ FiniteFitness(PriorBest(g))
           /\ Abs(current - PriorBest(g)) < config.convergence_threshold

\* the step evaluates a generation and records it
GenerationEvaluated ==
    pc = "loop" /\ pc' \in {"elitism", "returned"} /\ loop_index < config.generations

\* C25: after each generation is evaluated the tracked best fitness is the
\* maximum of the generation-best values recorded so far; the best-ever
\* individual is a clone, taken in that step, of the first individual of the
\* generation that attained the maximum when the maximum is new, and is
\* kept otherwise; the module optimize returns is the best-ever individual
C25_BestEverTracked ==
    /\ [][GenerationEvaluated =>
            LET g == Len(optimization_history')
                current == optimization_history'[g].best_fitness
                first == CHOOSE i \in DOMAIN fitness_scores' :
                            /\ fitness_scores'[i] = current
                            /\ \A j \in 1..(i - 1) : fitness_scores'[j] < current
            IN /\ g = Len(optimization_history) + 1
               /\ \A i \in DOMAIN fitness_scores' : fitness_scores'[i] <= current
               /\ SubSeq(optimization_history', 1, g - 1) = optimization_history
               /\ best_fitness' = MaxOf(PriorBest(g), current)
               /\ best_fitness' >= best_fitness
               /\ best_individual' \notin Range(population')
               /\ heap'[best_individual'] =
                     IF g = 1 \/ current > best_fitness
                     THEN heap[population[first]]
                     ELSE heap[best_individual]]_vars
    /\ []((pc = "returned" /\ result # RootRef) => result = best_individual)

\* the second generation's best beats the first's; it was attained by the
\* second individual, which differs from the first
C25_Witness ==
    /\ pc \in {"elitism", "returned"}
    /\ Len(optimization_history) = 2
    /\ optimization_history[2].best_fitness > optimization_history[1].best_fitness
    /\ Len(fitness_scores) = 2
    /\ fitness_scores[1] < fitness_scores[2]
    /\ best_fitness = fitness_scores[2]
    /\ heap[best_individual] = heap[population[2]]
    /\ heap[population[1]] # heap[population[2]]

\* C26: in the offspring of a crossover of parents A and B every Active
\* parameter present (and Active) in both parents has A's or B's value, every
\* other parameter, the sub-modules' included, has A's value, and neither A
\* nor B is modified
C26_CrossoverValues ==
    [][(pc = "cross" /\ pc' = "crossed") =>
          LET A == heap[population[1]]
              B == heap[population[2]]
              offspring == heap'[result']
              common == {n \in DOMAIN A.params \cap DOMAIN B.params :
                            A.params[n].state = Active /\ B.params[n].state = Active}
          IN /\ result' \notin {population[1], population[2], RootRef}
             /\ heap'[population[1]] = A /\ heap'[population[2]] = B
             /\ heap'[RootRef] = heap[RootRef]
             /\ DOMAIN offspring.params = DOMAIN A.params
             /\ \A n \in DOMAIN A.params :
                   /\ offspring.params[n].state = A.params[n].state
                   /\ IF n \in common
                      THEN offspring.params[n].value \in
                               {A.params[n].value, B.params[n].value}
                      ELSE offspring.params[n].value = A.params[n].value
             /\ offspring.children = A.children]_vars

\* the offspring took B's "instructions", kept A's "style" and A's
\* sub-module, which differ from B's
C26_Witness ==
    /\ pc = "crossed"
    /\ LET A == heap[population[1]]
           B == heap[population[2]]
           offspring == heap[result]
       IN /\ A.params["instructions"].value # B.params["instructions"].value
          /\ offspring.params["instructions"].value = B.params["instructions"].value
          /\ A.params["style"].value # B.params["style"].value
          /\ offspring.params["style"].value = A.params["style"].value
          /\ A.children # B.children

\* C27: the optimizer rewrites only parameters the root module of an
\* individual owns: the sub-modules of every individual of every
\* generation, of the best-ever individual and of the returned module are
\* the root's, whatever the mutation, crossover and reflection choices
C27_DescendantsUntouched ==
    \A r \in Individuals : heap[r].children = original.children

\* an individual of a later generation whose own "instructions" was
\* rewritten, in a run that made a reflection call
C27_Witness ==
    /\ pc = "loop" /\ loop_index >= 1
    /\ reflect_calls >= 1
    /\ original.children # <<>>
    /\ \E i \in DOMAIN population :
          heap[population[i]].params["instructions"].value #
              original.params["instructions"].value

\* the last generation, index generations - 1, has been evaluated and recorded
LastGenerationRecorded ==
    /\ pc \notin {"idle"}
    /\ IsLearningEnabled(original)
    /\ config.generations >= 1
    /\ Len(optimization_history) = config.generations

\* C28: once the last generation has been evaluated and recorded, optimize
\* makes no further evaluation_fn or reflection call and builds no further
\* offspring before it returns
C28_NothingAfterLastGeneration ==
    [][LastGenerationRecorded =>
          /\ eval_calls' = eval_calls
          /\ reflect_calls' = reflect_calls
          /\ Len(next_generation') <= Len(next_generation) \/ pc # "offspring"]_vars

\* C29: in every state reached through register, update, freeze(name),
\* unfreeze(name), Module.freeze() and Module.unfreeze(), a module whose
\* is_frozen flag is set has all the parameters it owns in state Frozen
C29_FrozenModuleAllFrozen ==
    \A path \in ModulePaths(tree) :
        LET m == GetAt(tree, path)
        IN m.is_frozen => \A n \in DOMAIN m.params : m.params[n].state = Frozen

\* C30: after optimize returns from a run that evaluated k >= 1 generations
\* the statistics log holds exactly k records, with the generation indices
\* 0, 1, ..., k-1 in order, and get_optimization_stats() reports
\* generations_completed = k
C30_GenerationsCompleted ==
    (pc = "returned" /\ result # RootRef /\ Len(optimization_history) >= 1) =>
        LET stats == GetOptimizationStats
            k == IF loop_index < config.generations THEN loop_index + 1 ELSE loop_index
        IN /\ Len(stats.history) = k
           /\ \A i \in 1..k : stats.history[i].generation = i - 1
           /\ stats.generations_completed = k

====
